---- MODULE Spec2Model ----
(***************************************************************************)
(* Model of the rollcall frontend's authenticated-session protocol:        *)
(*   - the route guard (frontend/src/middleware.ts),                       *)
(*   - the auth slice and its durable-storage mirror                       *)
(*     (frontend/src/store/slices/authSlice.ts),                           *)
(*   - the two HTTP clients (ApiService) and their interceptors            *)
(*     (frontend/src/services/endpoints/auth.ts).                          *)
(* URLs are sequences of one-character strings so that prefix matching     *)
(* and percent-encoding are computed character by character.               *)
(***************************************************************************)
EXTENDS Integers, Sequences, FiniteSets, TLC

VARIABLES
    request,       \* route guard: the NextRequest being handled
    response,      \* route guard: the NextResponse produced for it
    hops,          \* route guard: redirects followed since the navigation began
    auth,          \* auth slice: {token, user, isAuthenticated, loading, error}
    localStorage,  \* durable storage: key -> value or Absent
    href,          \* window.location.href (path part) of the browser tab
    inflight,      \* HTTP requests sent and not yet answered
    lastResult,    \* what the last finished ApiService call gave its caller
    history,       \* history: "credentials" once setCredentials was applied and no
                   \* logout since, "loggedOut" after a logout, "none" before either
    cookieJar,     \* the browser's auth_token cookie, sent with every navigation
    page,          \* the mounted page component's isLoading flag and the submit
                   \* handlers that are suspended at their await
    board          \* the leaderboard page: its sample users and its controls

guardVars == <<request, response, hops>>
pageVars == <<cookieJar, page, board>>
clientVars == <<auth, localStorage, href, inflight, lastResult, history, cookieJar, page,
                board>>
vars == <<request, response, hops, auth, localStorage, href, inflight, lastResult, history,
          cookieJar, page, board>>

(***************************************************************************)
(* Characters and URL strings                                              *)
(***************************************************************************)
Undefined == "undefined"

StartsWith(s, p) == Len(s) >= Len(p) /\ SubSeq(s, 1, Len(p)) = p

Slash == <<"/">>
W_profile == <<"p", "r", "o", "f", "i", "l", "e">>
W_settings == <<"s", "e", "t", "t", "i", "n", "g", "s">>
W_auth == <<"a", "u", "t", "h">>
W_login == <<"l", "o", "g", "i", "n">>
W_register == <<"r", "e", "g", "i", "s", "t", "e", "r">>
W_forgot == <<"f", "o", "r", "g", "o", "t", "-", "p", "a", "s", "s", "w", "o", "r", "d">>
W_dashboard == <<"d", "a", "s", "h", "b", "o", "a", "r", "d">>
W_user == <<"u", "s", "e", "r">>
W_today == <<"t", "o", "d", "a", "y">>
W_callbackUrl == <<"c", "a", "l", "l", "b", "a", "c", "k", "U", "r", "l">>

\* request.url's scheme and host: the origin the guard resolves redirects against
Origin == <<"h", "t", "t", "p", ":", "/", "/", "h">>

ProfilePath == Slash \o W_profile
SettingsPath == Slash \o W_settings
LoginPath == Slash \o W_auth \o Slash \o W_login
RegisterPath == Slash \o W_auth \o Slash \o W_register
ForgotPasswordPath == Slash \o W_auth \o Slash \o W_forgot
DashboardPath == Slash \o W_dashboard

\* mutant of protectedPaths: the commented-out '/dashboard' entry is active
protectedPaths_WithDashboard == {ProfilePath, SettingsPath, DashboardPath}

\* middleware.ts:4-8
protectedPaths == {ProfilePath, SettingsPath}
\* middleware.ts:11-15
authPaths == {LoginPath, RegisterPath, ForgotPasswordPath}

(***************************************************************************)
(* Percent-encoding, as encodeURI and URLSearchParams compute it           *)
(***************************************************************************)
\* characters of the model's alphabet that some encoder escapes, with their hex code
PctCode ==
    ("%" :> <<"2", "5">>) @@ ("/" :> <<"2", "F">>) @@ (":" :> <<"3", "A">>) @@
    ("?" :> <<"3", "F">>) @@ ("=" :> <<"3", "D">>) @@ ("|" :> <<"7", "C">>)

\* encodeURI leaves the reserved and unreserved characters alone and escapes the
\* rest: of this alphabet, "%" and "|"
EncodeURIChar(c) == IF c \in {"%", "|"} THEN <<"%">> \o PctCode[c] ELSE <<c>>

RECURSIVE encodeURI(_)
encodeURI(s) == IF s = <<>> THEN <<>> ELSE EncodeURIChar(Head(s)) \o encodeURI(Tail(s))

\* URLSearchParams.set serialises with application/x-www-form-urlencoded:
\* alphanumerics and * - . _ stay, everything else is escaped
FormEncodeChar(c) == IF c \in DOMAIN PctCode THEN <<"%">> \o PctCode[c] ELSE <<c>>

RECURSIVE FormEncode(_)
FormEncode(s) == IF s = <<>> THEN <<>> ELSE FormEncodeChar(Head(s)) \o FormEncode(Tail(s))

\* URLSearchParams.get: one pass of percent-decoding
RECURSIVE FormDecode(_)
FormDecode(s) ==
    IF s = <<>> THEN <<>>
    ELSE IF Head(s) = "%" /\ Len(s) >= 3
              /\ \E c \in DOMAIN PctCode : PctCode[c] = <<s[2], s[3]>>
         THEN <<CHOOSE c \in DOMAIN PctCode : PctCode[c] = <<s[2], s[3]>> >>
                  \o FormDecode(SubSeq(s, 4, Len(s)))
         ELSE <<Head(s)>> \o FormDecode(Tail(s))

(***************************************************************************)
(* Route guard                                                             *)
(***************************************************************************)
NoCookie == [present |-> FALSE, value |-> Undefined]
Cookie(v) == [present |-> TRUE, value |-> v]
\* the auth_token cookie a request may carry: none, one with an empty value, or
\* one of two different values
Cookies == {NoCookie, Cookie(""), Cookie("c1"), Cookie("c2")}

\* JavaScript truthiness of an optional string
Truthy(v) == v # Undefined /\ v # ""

RequestPaths == {
    Slash,
    ProfilePath,
    ProfilePath \o Slash,
    ProfilePath \o Slash \o <<"e">>,
    ProfilePath \o Slash \o <<"a", "%", "2", "0", "b">>,
    ProfilePath \o <<"x">>,
    Slash \o W_user \o ProfilePath,
    SettingsPath,
    SettingsPath \o Slash \o <<"a", "|", "b">>,
    DashboardPath,
    Slash \o W_auth,
    LoginPath,
    LoginPath \o Slash,
    LoginPath \o <<"x">>,
    RegisterPath,
    ForgotPasswordPath,
    ForgotPasswordPath \o Slash \o <<"e">>,
    Slash \o W_login,
    Slash \o W_today }

RequestSearches == { <<>>, <<"?", "q", "=", "1">> }

NoRequest == [pathname |-> <<>>, search |-> <<>>, cookie |-> NoCookie]
NoResponse == [kind |-> "none", pathname |-> <<>>, search |-> <<>>]

\* request.url
Url(req) == Origin \o req.pathname \o req.search

\* mutant of isProtectedPath: the prefix test drops the '/' separator
isProtectedPath_ByPrefix(pathname) ==
    \E path \in protectedPaths : pathname = path \/ StartsWith(pathname, path)

\* middleware.ts:21-23
isProtectedPath(pathname) ==
    \E path \in protectedPaths : pathname = path \/ StartsWith(pathname, path \o Slash)

\* middleware.ts:26-28
isAuthPath(pathname) ==
    \E path \in authPaths : pathname = path \/ StartsWith(pathname, path \o Slash)

\* middleware.ts:31
CookieToken(req) == IF req.cookie.present THEN req.cookie.value ELSE Undefined

\* middleware.ts:35-37: new URL('/auth/login', request.url) with
\* searchParams.set('callbackUrl', encodeURI(request.url))
LoginRedirect(req) ==
    [kind |-> "redirect",
     pathname |-> LoginPath,
     search |-> <<"?">> \o W_callbackUrl \o <<"=">> \o FormEncode(encodeURI(Url(req)))]

\* middleware.ts:42
DashboardRedirect == [kind |-> "redirect", pathname |-> DashboardPath, search |-> <<>>]

\* middleware.ts:45
NextResponseNext == [kind |-> "next", pathname |-> <<>>, search |-> <<>>]

\* mutant of middleware: the auth-path branch validates the cookie's content
middleware_CookieValueChecked(req) ==
    IF isProtectedPath(req.pathname) /\ ~Truthy(CookieToken(req))
    THEN LoginRedirect(req)
    ELSE IF isAuthPath(req.pathname) /\ CookieToken(req) = "c1"
         THEN DashboardRedirect
         ELSE NextResponseNext

\* mutant of middleware: the login redirect forgets the path classification
middleware_NoTokenAnyPath(req) ==
    IF ~Truthy(CookieToken(req))
    THEN LoginRedirect(req)
    ELSE IF isAuthPath(req.pathname) /\ Truthy(CookieToken(req))
         THEN DashboardRedirect
         ELSE NextResponseNext

\* mutant of middleware: the protected branch validates the cookie's content
middleware_ProtectedValueChecked(req) ==
    IF isProtectedPath(req.pathname) /\ CookieToken(req) # "c1"
    THEN LoginRedirect(req)
    ELSE IF isAuthPath(req.pathname) /\ Truthy(CookieToken(req))
         THEN DashboardRedirect
         ELSE NextResponseNext

\* mutant of middleware: the auth pages, too, are refused without a token
middleware_AuthPathsNeedToken(req) ==
    IF (isProtectedPath(req.pathname) \/ isAuthPath(req.pathname))
       /\ ~Truthy(CookieToken(req))
    THEN LoginRedirect(req)
    ELSE IF isAuthPath(req.pathname) /\ Truthy(CookieToken(req))
         THEN DashboardRedirect
         ELSE NextResponseNext

\* middleware.ts:17-46
middleware(req) ==
    IF isProtectedPath(req.pathname) /\ ~Truthy(CookieToken(req))
    THEN LoginRedirect(req)
    ELSE IF isAuthPath(req.pathname) /\ Truthy(CookieToken(req))
         THEN DashboardRedirect
         ELSE NextResponseNext

\* url.searchParams.get('callbackUrl') on a redirect's Location
CallbackParam(resp) ==
    LET prefix == <<"?">> \o W_callbackUrl \o <<"=">>
    IN IF StartsWith(resp.search, prefix)
       THEN FormDecode(SubSeq(resp.search, Len(prefix) + 1, Len(resp.search)))
       ELSE <<>>

(***************************************************************************)
(* Route guard: one navigation request at a time, redirects followed by    *)
(* the browser with the same cookie                                        *)
(***************************************************************************)
MaxHops == 2

\* the guard answers a navigation request (middleware.ts:17-46)
GuardRequest(pathname, search, cookie) ==
    /\ request' = [pathname |-> pathname, search |-> search, cookie |-> cookie]
    /\ response' = middleware(request')
    /\ hops' = 0
    /\ UNCHANGED clientVars

\* the browser follows a redirect: a new request for the Location, same cookie
FollowRedirect ==
    /\ response.kind = "redirect"
    /\ hops < MaxHops
    /\ request' = [pathname |-> response.pathname, search |-> response.search,
                   cookie |-> request.cookie]
    /\ response' = middleware(request')
    /\ hops' = hops + 1
    /\ UNCHANGED clientVars

(***************************************************************************)
(* Auth slice and durable storage                                          *)
(***************************************************************************)
Null == "null"
Tokens == {"T1", "T2"}
Users == {"U1", "U2"}
ErrorMessages == {"Passwords do not match", "Registration failed. Please try again."}

\* the key the auth slice uses, and the key the first ApiService uses
AuthTokenKey == "auth_token"
TokenKey == "token"
StorageKeys == {AuthTokenKey, TokenKey}

\* the code runs in a browser tab: typeof window !== 'undefined'
HasWindow == TRUE

\* mutant of initialState: a stored token alone marks the client authenticated
initialState_AuthFromStorage(storage) ==
    [token |-> IF HasWindow THEN storage[AuthTokenKey] ELSE Null,
     user |-> Null,
     isAuthenticated |-> storage[AuthTokenKey] # Null,
     loading |-> FALSE,
     error |-> Null]

\* authSlice.ts:12-18
initialState(storage) ==
    [token |-> IF HasWindow THEN storage[AuthTokenKey] ELSE Null,
     user |-> Null,
     isAuthenticated |-> FALSE,
     loading |-> FALSE,
     error |-> Null]

\* mutant of setCredentials: the token is mirrored under the other storage key
setCredentials_WrongKey(payload) ==
    /\ auth' = [auth EXCEPT !.token = payload.token,
                            !.user = payload.user,
                            !.isAuthenticated = TRUE,
                            !.error = Null]
    /\ localStorage' = [localStorage EXCEPT ![TokenKey] = payload.token]
    /\ history' = "credentials"
    /\ UNCHANGED <<href, inflight, lastResult>>
    /\ UNCHANGED guardVars
    /\ UNCHANGED pageVars

\* authSlice.ts:25-28: the slice after setCredentials
CredentialsState(state, payload) ==
    [state EXCEPT !.token = payload.token,
                  !.user = payload.user,
                  !.isAuthenticated = TRUE,
                  !.error = Null]

\* authSlice.ts:30-32: storage after setCredentials
CredentialsStorage(storage, payload) ==
    IF HasWindow THEN [storage EXCEPT ![AuthTokenKey] = payload.token] ELSE storage

\* authSlice.ts:24-33
setCredentials(payload) ==
    /\ auth' = CredentialsState(auth, payload)
    /\ localStorage' = CredentialsStorage(localStorage, payload)
    /\ history' = "credentials"
    /\ UNCHANGED <<href, inflight, lastResult>>
    /\ UNCHANGED guardVars
    /\ UNCHANGED pageVars

\* mutant of setUser: replacing the profile also drops the error
setUser_ClearsError(payload) ==
    /\ auth' = [auth EXCEPT !.user = payload, !.error = Null]
    /\ UNCHANGED <<localStorage, href, inflight, lastResult, history>>
    /\ UNCHANGED guardVars
    /\ UNCHANGED pageVars

\* authSlice.ts:34-36
setUser(payload) ==
    /\ auth' = [auth EXCEPT !.user = payload]
    /\ UNCHANGED <<localStorage, href, inflight, lastResult, history>>
    /\ UNCHANGED guardVars
    /\ UNCHANGED pageVars

\* authSlice.ts:38: the slice after setLoading
LoadingState(state, payload) == [state EXCEPT !.loading = payload]

\* authSlice.ts:41: the slice after setError
ErrorState(state, payload) == [state EXCEPT !.error = payload]

\* mutant of setLoading: starting to load also clears the previous error
setLoading_ClearsError(payload) ==
    /\ auth' = [auth EXCEPT !.loading = payload, !.error = Null]
    /\ UNCHANGED <<localStorage, href, inflight, lastResult, history>>
    /\ UNCHANGED guardVars
    /\ UNCHANGED pageVars

\* authSlice.ts:37-39
setLoading(payload) ==
    /\ auth' = LoadingState(auth, payload)
    /\ UNCHANGED <<localStorage, href, inflight, lastResult, history>>
    /\ UNCHANGED guardVars
    /\ UNCHANGED pageVars

\* authSlice.ts:40-42
setError(payload) ==
    /\ auth' = ErrorState(auth, payload)
    /\ UNCHANGED <<localStorage, href, inflight, lastResult, history>>
    /\ UNCHANGED guardVars
    /\ UNCHANGED pageVars

\* mutant of logout: token and user are cleared but the flag is left set
logout_KeepsAuthenticated ==
    /\ auth' = [auth EXCEPT !.token = Null, !.user = Null, !.error = Null]
    /\ localStorage' = [localStorage EXCEPT ![AuthTokenKey] = Null]
    /\ history' = "loggedOut"
    /\ UNCHANGED <<href, inflight, lastResult>>
    /\ UNCHANGED guardVars
    /\ UNCHANGED pageVars

\* mutant of logout: the slice is cleared but the stored token is left behind
logout_KeepsStorage ==
    /\ auth' = [auth EXCEPT !.token = Null,
                            !.user = Null,
                            !.isAuthenticated = FALSE,
                            !.error = Null]
    /\ history' = "loggedOut"
    /\ UNCHANGED <<localStorage, href, inflight, lastResult>>
    /\ UNCHANGED guardVars
    /\ UNCHANGED pageVars

\* authSlice.ts:43-52
logout ==
    /\ auth' = [auth EXCEPT !.token = Null,
                            !.user = Null,
                            !.isAuthenticated = FALSE,
                            !.error = Null]
    /\ localStorage' = IF HasWindow
                       THEN [localStorage EXCEPT ![AuthTokenKey] = Null]
                       ELSE localStorage
    /\ history' = "loggedOut"
    /\ UNCHANGED <<href, inflight, lastResult>>
    /\ UNCHANGED guardVars
    /\ UNCHANGED pageVars

(***************************************************************************)
(* HTTP clients: the two ApiService classes and their interceptors         *)
(***************************************************************************)
MaxInflight == 1

\* client 1: auth.ts:63-211, the apiService the auth endpoints import (auth.ts:1,16-28)
\* client 2: auth.ts:224-327
Clients == {1, 2}
\* the client the auth endpoints call (auth.ts:1, 16-28)
AuthEndpointsClient == 1
Methods(client) ==
    IF client = 1 THEN {"get", "post", "put", "delete"}
    ELSE {"get", "post", "put", "patch", "delete"}

\* a response body as axios hands it over: '' when the response has no body,
\* else the parsed JSON object
EmptyBody == [isObject |-> FALSE, message |-> Undefined, detail |-> Undefined]
ObjectBody(m, d) == [isObject |-> TRUE, message |-> m, detail |-> d]
ErrorBodies ==
    {EmptyBody, ObjectBody(Undefined, Undefined),
     ObjectBody("server message", Undefined), ObjectBody(Undefined, "server detail")}

ErrorStatuses == {401, 500}

\* what the network gives back for a request that was sent
Outcomes ==
    {[kind |-> "ok", status |-> 200, body |-> ObjectBody(Undefined, Undefined)]}
    \cup {[kind |-> "http", status |-> st, body |-> b] : st \in ErrorStatuses, b \in ErrorBodies}
    \cup {[kind |-> "network", status |-> 0, body |-> EmptyBody]}

\* an exception thrown while the request is prepared (storage access refused)
PrepFailure == [kind |-> "prep", status |-> 0, body |-> EmptyBody]

\* AxiosError.message, or the thrown exception's message
ErrorMessage(outcome) ==
    CASE outcome.kind = "http" -> "Request failed with status code"
      [] outcome.kind = "network" -> "Network Error"
      [] outcome.kind = "prep" -> "The operation is insecure."
      [] OTHER -> Undefined

\* a || b || c over optional strings
Or3(a, b, c) == IF Truthy(a) THEN a ELSE IF Truthy(b) THEN b ELSE c

\* the value an ApiService method gives its caller
NoError == [present |-> FALSE, isObject |-> FALSE, message |-> Undefined,
            detail |-> Undefined, code |-> Undefined, status |-> 0]
NoResult == [kind |-> "none", client |-> 0, success |-> FALSE,
             hasData |-> FALSE, status |-> 0, hasHeaders |-> FALSE, error |-> NoError]

\* localStorage.getItem: null when the key is absent
getItem(storage, key) == storage[key]

\* auth.ts:76-79: the bearer token client 1 attaches
RequestInterceptor1(storage) ==
    LET token == getItem(storage, TokenKey)
    IN IF token # Null /\ Truthy(token) THEN token ELSE Undefined

\* auth.ts:242-246: the bearer token client 2 attaches
RequestInterceptor2(storage) ==
    LET token == IF HasWindow THEN getItem(storage, AuthTokenKey) ELSE Null
    IN IF token # Null /\ Truthy(token) THEN token ELSE Undefined

RequestInterceptor(client, storage) ==
    IF client = 1 THEN RequestInterceptor1(storage) ELSE RequestInterceptor2(storage)

\* auth.ts:142-147: client 1's 401 branch
Storage401Client1(storage) == [storage EXCEPT ![TokenKey] = Null]
Href401Client1 == Slash \o W_login

\* auth.ts:258-266: client 2's 401 branch
Storage401Client2(storage) ==
    IF HasWindow THEN [storage EXCEPT ![AuthTokenKey] = Null] ELSE storage
Href401Client2 == LoginPath

\* auth.ts:122-128 with 171-205: client 1 returns response.data of the wrapped response
Success1(outcome) ==
    [kind |-> "returned", client |-> 1, success |-> TRUE,
     hasData |-> TRUE, status |-> 0, hasHeaders |-> FALSE, error |-> NoError]

\* auth.ts:156-165 with the catch of 171-205: client 1 returns the rejection value
Failure1(outcome) ==
    [kind |-> "returned", client |-> 1, success |-> FALSE,
     hasData |-> FALSE, status |-> 0, hasHeaders |-> FALSE,
     error |-> [present |-> TRUE, isObject |-> TRUE,
                message |-> Or3(outcome.body.detail, outcome.body.message,
                                ErrorMessage(outcome)),
                detail |-> Undefined, code |-> Undefined,
                status |-> outcome.status]]

\* auth.ts:278-284
Success2(outcome) ==
    [kind |-> "returned", client |-> 2, success |-> TRUE,
     hasData |-> TRUE, status |-> outcome.status, hasHeaders |-> TRUE, error |-> NoError]

\* auth.ts:286-303
Failure2(outcome) ==
    IF outcome.kind = "http"
    THEN [kind |-> "returned", client |-> 2, success |-> FALSE,
          hasData |-> FALSE, status |-> outcome.status, hasHeaders |-> TRUE,
          error |-> [present |-> TRUE, isObject |-> outcome.body.isObject,
                     message |-> outcome.body.message, detail |-> outcome.body.detail,
                     code |-> Undefined, status |-> 0]]
    ELSE [kind |-> "returned", client |-> 2, success |-> FALSE,
          hasData |-> FALSE, status |-> 0, hasHeaders |-> FALSE,
          error |-> [present |-> TRUE, isObject |-> TRUE,
                     message |-> ErrorMessage(outcome), detail |-> Undefined,
                     code |-> "UNKNOWN_ERROR", status |-> 0]]

\* what get/post/put/patch/delete give the caller for an outcome
MethodResult(client, outcome) ==
    IF client = 1
    THEN IF outcome.kind = "ok" THEN Success1(outcome) ELSE Failure1(outcome)
    ELSE IF outcome.kind = "ok" THEN Success2(outcome) ELSE Failure2(outcome)

Is401(outcome) == outcome.kind = "http" /\ outcome.status = 401

\* storage and location after the response interceptor has run
StorageAfter(client, outcome, storage) ==
    IF Is401(outcome)
    THEN IF client = 1 THEN Storage401Client1(storage) ELSE Storage401Client2(storage)
    ELSE storage

HrefAfter(client, outcome, current) ==
    IF Is401(outcome)
    THEN IF client = 1 THEN Href401Client1
         ELSE IF HasWindow THEN Href401Client2 ELSE current
    ELSE current

\* a page calls apiService.<method>(...): the request interceptor runs and the
\* request is sent (auth.ts:73-92, 171-205; 239-251, 274-326)
Call(client, method) ==
    /\ Cardinality(inflight) < MaxInflight
    /\ LET req == [client |-> client, method |-> method,
                   authorization |-> RequestInterceptor(client, localStorage)]
       IN /\ req \notin inflight
          /\ inflight' = inflight \cup {req}
    /\ UNCHANGED <<auth, localStorage, href, lastResult, history>>
    /\ UNCHANGED guardVars
    /\ UNCHANGED pageVars

\* the request interceptor throws before anything is sent: the rejection runs
\* through the response error interceptor and the method's catch
CallPrepFails(client, method) ==
    /\ lastResult' = MethodResult(client, PrepFailure)
    /\ UNCHANGED <<auth, localStorage, href, inflight, history>>
    /\ UNCHANGED guardVars
    /\ UNCHANGED pageVars

\* the answer to an outstanding request arrives: response interceptor, then the
\* method returns (auth.ts:108-166, 171-205; 254-270, 274-305)
Complete(req, outcome) ==
    /\ req \in inflight
    /\ inflight' = inflight \ {req}
    /\ localStorage' = StorageAfter(req.client, outcome, localStorage)
    /\ href' = HrefAfter(req.client, outcome, href)
    /\ lastResult' = MethodResult(req.client, outcome)
    /\ UNCHANGED <<auth, history>>
    /\ UNCHANGED guardVars
    /\ UNCHANGED pageVars

\* the leaderboard module is not loaded
NoBoard == [users |-> <<>>, timeFrame |-> "all-time", sortBy |-> "streak",
            currentPage |-> 1, rowsPerPage |-> 0]

\* a freshly mounted page: not loading, no handler suspended
NoPage == [isLoading |-> FALSE, flows |-> {}]

\* a new document is loaded (after window.location.href was assigned, or on a
\* reload by the user): the store is built again from initialState and the old
\* document's requests and results are gone
PageLoad ==
    /\ auth' = initialState(localStorage)
    /\ inflight' = {}
    /\ lastResult' = NoResult
    /\ page' = NoPage
    /\ board' = NoBoard
    /\ UNCHANGED <<localStorage, href, history, cookieJar>>
    /\ UNCHANGED guardVars

(***************************************************************************)
(* Pages: the login and registration forms and client-side navigation      *)
(***************************************************************************)
Passwords == {"pw1", "pw2"}
MismatchMessage == "Passwords do not match"
RegistrationFailedMessage == "Registration failed. Please try again."

TodayPath == Slash \o W_today
UserProfilePath == Slash \o W_user \o ProfilePath

\* submit handlers suspended at their await; mounted: the component that
\* started them is still the one on screen; n: how many handlers of that form
\* and kind are suspended, of which at most MaxSubmissions are followed
MaxSubmissions == 2
PendingCount(pg, name) ==
    LET mounted == {f \in pg.flows : f.flow = name /\ f.mounted}
        unmounted == {f \in pg.flows : f.flow = name /\ ~f.mounted}
    IN Cardinality(mounted)
       + (IF unmounted = {} THEN 0 ELSE (CHOOSE f \in unmounted : TRUE).n)
CanSubmit(name) == PendingCount(page, name) < MaxSubmissions
Flow(name) == [flow |-> name, mounted |-> TRUE, n |-> 1]

\* what the sign-up request can be answered with: the AuthResponse, a 2xx
\* without a body, an error status, or no answer at all
NoAuthResponse == [token |-> Null, user |-> Null]
SignUpOutcomes ==
    {[kind |-> "ok", status |-> 200, body |-> ObjectBody(Undefined, Undefined),
      hasData |-> TRUE, data |-> [token |-> t, user |-> u]] : t \in Tokens, u \in Users}
    \cup {[kind |-> "ok", status |-> 200, body |-> EmptyBody,
           hasData |-> FALSE, data |-> NoAuthResponse]}
    \cup {[kind |-> o.kind, status |-> o.status, body |-> o.body,
           hasData |-> FALSE, data |-> NoAuthResponse] : o \in {x \in Outcomes : x.kind # "ok"}}

\* the backend issues the session cookie with a successful login/registration
BackendSetCookie(jar, outcome) ==
    IF outcome.kind = "ok" /\ outcome.hasData THEN Cookie("c1") ELSE jar

\* router.push(path) / <Link href=path>: the navigation request passes the route
\* guard with the browser's cookie and redirects are followed
RECURSIVE RouteTo(_, _, _)
RouteTo(path, jar, n) ==
    LET r == middleware([pathname |-> path, search |-> <<>>, cookie |-> jar])
    IN IF r.kind = "redirect" /\ n > 0 THEN RouteTo(r.pathname, jar, n - 1) ELSE path

\* the page after the location became `to`: another route mounts a fresh
\* component, and the handlers still suspended belong to an unmounted one
PageAt(pg, from, to) ==
    IF to = from THEN pg
    ELSE [isLoading |-> FALSE,
          flows |-> {[flow |-> name, mounted |-> FALSE, n |-> PendingCount(pg, name)] :
                        name \in {f.flow : f \in pg.flows}}]

\* a handler's finally block: setIsLoading(false) reaches only a mounted component
Settled(pg, f) ==
    [isLoading |-> IF f.mounted THEN FALSE ELSE pg.isLoading,
     flows |-> (pg.flows \ {f})
               \cup (IF f.n > 1 THEN {[f EXCEPT !.n = f.n - 1]} ELSE {})]

\* the links and buttons that navigate: Header (types/api.ts:68,76,87; the
\* profile button is rendered only for an authenticated user), the login page's
\* Sign Up button (login/page.tsx:91), the register page's Sign In button
NavTargets == {DashboardPath, LoginPath, RegisterPath, UserProfilePath}

Navigate(path) ==
    /\ path = UserProfilePath => (auth.isAuthenticated /\ auth.user # Null)
    /\ href' = RouteTo(path, cookieJar, MaxHops)
    /\ page' = PageAt(page, href, href')
    /\ href' # href
    /\ UNCHANGED <<auth, localStorage, inflight, lastResult, history, cookieJar, board>>
    /\ UNCHANGED guardVars

\* the route guard's answer to a navigation to path with the browser's cookie
GuardOn(path, jar) == middleware([pathname |-> path, search |-> <<>>, cookie |-> jar])

\* a visitor opens the home page (unnamed/part_002:7-24): the request for '/'
\* passes the guard, the store is built, and HomePage's effect pushes
\* '/dashboard', where DashboardPage's own check is disabled (part_003:72-77)
OpenHome ==
    /\ GuardOn(Slash, cookieJar) = NextResponseNext
    /\ auth' = initialState(localStorage)
    /\ inflight' = {}
    /\ lastResult' = NoResult
    /\ href' = RouteTo(DashboardPath, cookieJar, MaxHops)
    /\ page' = NoPage
    /\ board' = NoBoard
    /\ UNCHANGED <<localStorage, history, cookieJar>>
    /\ UNCHANGED guardVars

\* the sign-up request of register/page.tsx:43: authApi.signUp -> apiService.post
SignUpRequest(storage) ==
    [client |-> AuthEndpointsClient, method |-> "post",
     authorization |-> RequestInterceptor(AuthEndpointsClient, storage)]

\* mutant of RegisterSubmit: the passwords are not compared
RegisterSubmit_NoValidation(password, confirmPassword) ==
    /\ href = RegisterPath
    /\ ~page.isLoading
    /\ CanSubmit("register")
    /\ Cardinality(inflight) < MaxInflight
    /\ SignUpRequest(localStorage) \notin inflight
    /\ auth' = LoadingState(auth, TRUE)
    /\ page' = [isLoading |-> TRUE, flows |-> page.flows \cup {Flow("register")}]
    /\ inflight' = inflight \cup {SignUpRequest(localStorage)}
    /\ UNCHANGED <<localStorage, href, lastResult, history, cookieJar, board>>
    /\ UNCHANGED guardVars

\* register/page.tsx:30-48: handleSubmit up to the await (the submit button is
\* disabled while isLoading, page.tsx:134-141)
RegisterSubmit(password, confirmPassword) ==
    /\ href = RegisterPath
    /\ ~page.isLoading
    /\ IF password # confirmPassword
       THEN /\ auth' = ErrorState(auth, MismatchMessage)
            /\ UNCHANGED <<page, inflight>>
       ELSE /\ CanSubmit("register")
            /\ Cardinality(inflight) < MaxInflight
            /\ SignUpRequest(localStorage) \notin inflight
            /\ auth' = LoadingState(auth, TRUE)
            /\ page' = [isLoading |-> TRUE, flows |-> page.flows \cup {Flow("register")}]
            /\ inflight' = inflight \cup {SignUpRequest(localStorage)}
    /\ UNCHANGED <<localStorage, href, lastResult, history, cookieJar, board>>
    /\ UNCHANGED guardVars

\* register/page.tsx:39-65 when the request interceptor throws: the call returns
\* a failure at once and the handler runs to its end
RegisterSubmitPrepFails(password) ==
    /\ href = RegisterPath
    /\ ~page.isLoading
    /\ lastResult' = MethodResult(AuthEndpointsClient, PrepFailure)
    /\ auth' = LoadingState(ErrorState(LoadingState(auth, TRUE),
                                       RegistrationFailedMessage), FALSE)
    /\ UNCHANGED <<localStorage, href, inflight, history, cookieJar, page, board>>
    /\ UNCHANGED guardVars

\* mutant of RegisterComplete: the page tests response.success only, not
\* response.data
RegisterComplete_SuccessFlagOnly(f, outcome) ==
    LET result == MethodResult(AuthEndpointsClient, outcome)
        storage1 == StorageAfter(AuthEndpointsClient, outcome, localStorage)
        href1 == HrefAfter(AuthEndpointsClient, outcome, href)
    IN /\ f \in page.flows
       /\ f.flow = "register"
       /\ \E r \in inflight :
             /\ r.client = AuthEndpointsClient
             /\ r.method = "post"
             /\ inflight' = inflight \ {r}
       /\ lastResult' = result
       /\ cookieJar' = BackendSetCookie(cookieJar, outcome)
       /\ IF result.success
          THEN /\ auth' = LoadingState(CredentialsState(auth, outcome.data), FALSE)
               /\ localStorage' = CredentialsStorage(storage1, outcome.data)
               /\ history' = "credentials"
               /\ href' = RouteTo(LoginPath, cookieJar', MaxHops)
          ELSE /\ auth' = LoadingState(ErrorState(auth, RegistrationFailedMessage), FALSE)
               /\ localStorage' = storage1
               /\ history' = history
               /\ href' = href1
       /\ page' = PageAt(Settled(page, f), href, href')
       /\ UNCHANGED board
       /\ UNCHANGED guardVars

\* register/page.tsx:43-65: the sign-up call returns (response interceptor and
\* post's return, auth.ts:108-187) and handleSubmit resumes
RegisterComplete(f, outcome) ==
    LET result == MethodResult(AuthEndpointsClient, outcome)
        storage1 == StorageAfter(AuthEndpointsClient, outcome, localStorage)
        href1 == HrefAfter(AuthEndpointsClient, outcome, href)
    IN /\ f \in page.flows
       /\ f.flow = "register"
       /\ \E r \in inflight :
             /\ r.client = AuthEndpointsClient
             /\ r.method = "post"
             /\ inflight' = inflight \ {r}
       /\ lastResult' = result
       /\ cookieJar' = BackendSetCookie(cookieJar, outcome)
       /\ IF result.success /\ outcome.hasData
          THEN /\ auth' = LoadingState(CredentialsState(auth, outcome.data), FALSE)
               /\ localStorage' = CredentialsStorage(storage1, outcome.data)
               /\ history' = "credentials"
               /\ href' = RouteTo(LoginPath, cookieJar', MaxHops)
          ELSE /\ auth' = LoadingState(ErrorState(auth, RegistrationFailedMessage), FALSE)
               /\ localStorage' = storage1
               /\ history' = history
               /\ href' = href1
       /\ page' = PageAt(Settled(page, f), href, href')
       /\ UNCHANGED board
       /\ UNCHANGED guardVars

\* login/page.tsx:16-28: handleSubmit up to the await of the simulated call
LoginSubmit ==
    /\ href = LoginPath
    /\ ~page.isLoading
    /\ CanSubmit("login")
    /\ auth' = LoadingState(auth, TRUE)
    /\ page' = [isLoading |-> TRUE, flows |-> page.flows \cup {Flow("login")}]
    /\ UNCHANGED <<localStorage, href, inflight, lastResult, history, cookieJar, board>>
    /\ UNCHANGED guardVars

\* login/page.tsx:28-36: the timer fires, router.push('/today'), finally block
LoginComplete(f) ==
    /\ f \in page.flows
    /\ f.flow = "login"
    /\ href' = RouteTo(TodayPath, cookieJar, MaxHops)
    /\ auth' = LoadingState(auth, FALSE)
    /\ page' = PageAt(Settled(page, f), href, href')
    /\ UNCHANGED <<localStorage, inflight, lastResult, history, cookieJar, board>>
    /\ UNCHANGED guardVars

\* the second RegisterPage (unnamed/part_001:18-28): handleSubmit up to the await
Register2Submit(password, confirmPassword) ==
    /\ href = RegisterPath
    /\ ~page.isLoading
    /\ IF password # confirmPassword
       THEN /\ auth' = ErrorState(auth, MismatchMessage)
            /\ UNCHANGED page
       ELSE /\ CanSubmit("register2")
            /\ auth' = LoadingState(auth, TRUE)
            /\ page' = [isLoading |-> TRUE, flows |-> page.flows \cup {Flow("register2")}]
    /\ UNCHANGED <<localStorage, href, inflight, lastResult, history, cookieJar, board>>
    /\ UNCHANGED guardVars

\* unnamed/part_001:37-45: the timer fires, router.push('/today'), finally block
Register2Complete(f) ==
    /\ f \in page.flows
    /\ f.flow = "register2"
    /\ href' = RouteTo(TodayPath, cookieJar, MaxHops)
    /\ auth' = LoadingState(auth, FALSE)
    /\ page' = PageAt(Settled(page, f), href, href')
    /\ UNCHANGED <<localStorage, inflight, lastResult, history, cookieJar, board>>
    /\ UNCHANGED guardVars

(***************************************************************************)
(* Leaderboard page: sample users, sorting and pagination                  *)
(***************************************************************************)
\* leaderboard/page.tsx:20-31: the ten users written out in the source
FixedUsers ==
    << [id |-> 1, streak |-> 15, checkins |-> 45, events |-> 8],
       [id |-> 2, streak |-> 12, checkins |-> 36, events |-> 6],
       [id |-> 3, streak |-> 10, checkins |-> 30, events |-> 5],
       [id |-> 4, streak |-> 8, checkins |-> 24, events |-> 4],
       [id |-> 5, streak |-> 7, checkins |-> 21, events |-> 3],
       [id |-> 6, streak |-> 6, checkins |-> 18, events |-> 3],
       [id |-> 7, streak |-> 5, checkins |-> 15, events |-> 2],
       [id |-> 8, streak |-> 4, checkins |-> 12, events |-> 2],
       [id |-> 9, streak |-> 3, checkins |-> 9, events |-> 1],
       [id |-> 10, streak |-> 2, checkins |-> 6, events |-> 1] >>

\* leaderboard/page.tsx:35: users are generated up to id 100
TotalUsers == 100

\* the runs of Math.random() the model follows: the i-th generated value of a
\* run is a fixed function of i
RandomRuns == {1, 4, 7}
Max(a, b) == IF a >= b THEN a ELSE b
Min(a, b) == IF a <= b THEN a ELSE b

\* leaderboard/page.tsx:36-43: Math.max(1, floor(random * 15)),
\* floor(random * 50), floor(random * 10)
GeneratedUser(i, run) ==
    [id |-> i,
     streak |-> Max(1, (i * run) % 15),
     checkins |-> (i * run * 7 + run) % 50,
     events |-> (i * run * 3) % 10]

\* leaderboard/page.tsx:19-46
generateSampleUsers(run) ==
    FixedUsers \o [k \in 1..(TotalUsers - Len(FixedUsers)) |->
                      GeneratedUser(Len(FixedUsers) + k, run)]

SortKeys == {"streak", "checkins", "events"}
TimeFrames == {"all-time", "this-month", "this-week"}
RowsPerPageOptions == {20, 50, 100}
DefaultRowsPerPage == 20

\* mutant of Compare: the comparator's operands are swapped
Compare_Ascending(a, b, sortBy) ==
    CASE sortBy = "streak" -> a.streak - b.streak
      [] sortBy = "checkins" -> a.checkins - b.checkins
      [] sortBy = "events" -> a.events - b.events
      [] OTHER -> 0

\* leaderboard/page.tsx:57-62: the comparator handed to sort
Compare(a, b, sortBy) ==
    CASE sortBy = "streak" -> b.streak - a.streak
      [] sortBy = "checkins" -> b.checkins - a.checkins
      [] sortBy = "events" -> b.events - a.events
      [] OTHER -> 0

\* Array.prototype.sort with a comparator is a stable sort: element i ends up
\* behind the elements the comparator puts before it and behind the elements
\* that compare equal to it and stood before it (the tables are written as
\* sequences so that each is computed once)
Precedes(users, sortBy, j, i) ==
    \/ Compare(users[j], users[i], sortBy) < 0
    \/ Compare(users[j], users[i], sortBy) = 0 /\ j < i

StableSort(users, sortBy) ==
    LET N == Len(users)
        place == <<>> \o [i \in 1..N |->
                     1 + Cardinality({j \in 1..N : Precedes(users, sortBy, j, i)})]
        from == <<>> \o [p \in 1..N |-> CHOOSE i \in 1..N : place[i] = p]
    IN <<>> \o [p \in 1..N |-> users[from[p]]]

\* leaderboard/page.tsx:57-62: [...sampleUsers].sort(comparator)
filteredUsers(b) == StableSort(b.users, b.sortBy)

\* leaderboard/page.tsx:65-69 (slice clips at the end of the array; Math.ceil)
indexOfLastUser(b) == b.currentPage * b.rowsPerPage
indexOfFirstUser(b) == indexOfLastUser(b) - b.rowsPerPage
currentUsers(b) ==
    SubSeq(filteredUsers(b), indexOfFirstUser(b) + 1,
           Min(indexOfLastUser(b), Len(b.users)))
totalPages(b) == (Len(b.users) + b.rowsPerPage - 1) \div b.rowsPerPage

\* leaderboard/page.tsx:142: the rank shown in row index (from 0) of the page
Rank(b, index) == indexOfFirstUser(b) + index + 1

\* leaderboard/page.tsx:52-55: the component's initial state
MountedBoard(users) ==
    [users |-> users, timeFrame |-> "all-time", sortBy |-> "streak",
     currentPage |-> 1, rowsPerPage |-> DefaultRowsPerPage]

BoardStep(b) ==
    /\ board' = b
    /\ UNCHANGED <<auth, localStorage, href, inflight, lastResult, history, cookieJar, page>>
    /\ UNCHANGED guardVars

\* the module is evaluated (page.tsx:49) and the page is mounted
LeaderboardOpen(run) ==
    /\ board.users = <<>>
    /\ BoardStep(MountedBoard(generateSampleUsers(run)))

\* the page is left and mounted again: same sample users, initial controls
LeaderboardRemount ==
    /\ board.users # <<>>
    /\ BoardStep(MountedBoard(board.users))

\* leaderboard/page.tsx:157-183: the pagination bar is rendered for more than
\* one page; Previous is disabled on page 1, Next on the last page
PreviousPage ==
    /\ board.users # <<>>
    /\ totalPages(board) > 1
    /\ board.currentPage # 1
    /\ BoardStep([board EXCEPT !.currentPage = board.currentPage - 1])

NextPage ==
    /\ board.users # <<>>
    /\ totalPages(board) > 1
    /\ board.currentPage # totalPages(board)
    /\ BoardStep([board EXCEPT !.currentPage = board.currentPage + 1])

GoToPage(n) ==
    /\ board.users # <<>>
    /\ totalPages(board) > 1
    /\ n \in 1..totalPages(board)
    /\ BoardStep([board EXCEPT !.currentPage = n])

\* leaderboard/page.tsx:92-114
SetTimeFrame(t) ==
    /\ board.users # <<>>
    /\ BoardStep([board EXCEPT !.timeFrame = t])

SetSortBy(k) ==
    /\ board.users # <<>>
    /\ BoardStep([board EXCEPT !.sortBy = k])

\* mutant of handleRowsPerPageChange: the current page is kept
handleRowsPerPageChange_KeepsPage(rows) ==
    /\ board.users # <<>>
    /\ BoardStep([board EXCEPT !.rowsPerPage = rows])

\* leaderboard/page.tsx:72-75
handleRowsPerPageChange(rows) ==
    /\ board.users # <<>>
    /\ BoardStep([board EXCEPT !.rowsPerPage = rows, !.currentPage = 1])

(***************************************************************************)
(* Specifications                                                          *)
(***************************************************************************)
\* a tab opens: storage holds what an earlier session of this program left under
\* the slice's key, the cookie jar what an earlier session's backend left, and
\* the store is built from storage
Init ==
    /\ request = NoRequest
    /\ response = NoResponse
    /\ hops = 0
    /\ \E t \in Tokens \cup {Null} :
          localStorage = [k \in StorageKeys |-> IF k = AuthTokenKey THEN t ELSE Null]
    /\ auth = initialState(localStorage)
    /\ href = Slash
    /\ inflight = {}
    /\ lastResult = NoResult
    /\ history = "none"
    /\ cookieJar \in {NoCookie, Cookie("c1")}
    /\ page = NoPage
    /\ board = NoBoard

\* the session: the reducers that write the token, the HTTP clients, page loads
Next ==
    \/ \E t \in Tokens, u \in Users : setCredentials([token |-> t, user |-> u])
    \/ logout
    \/ \E c \in Clients : \E m \in Methods(c) : Call(c, m)
    \/ \E c \in Clients : \E m \in Methods(c) : CallPrepFails(c, m)
    \/ \E r \in inflight : \E o \in Outcomes : Complete(r, o)
    \/ PageLoad

Spec == Init /\ [][Next]_vars

\* the auth slice alone: every reducer, and page loads
SliceNext ==
    \/ \E t \in Tokens, u \in Users : setCredentials([token |-> t, user |-> u])
    \/ \E u \in Users : setUser(u)
    \/ \E b \in BOOLEAN : setLoading(b)
    \/ \E m \in ErrorMessages : setError(m)
    \/ logout
    \/ PageLoad

SliceSpec == Init /\ [][SliceNext]_vars

\* the pages: navigation, the login and registration forms, page loads
PageNext ==
    \/ \E p \in NavTargets : Navigate(p)
    \/ \E pw \in Passwords, cpw \in Passwords : RegisterSubmit(pw, cpw)
    \/ \E pw \in Passwords : RegisterSubmitPrepFails(pw)
    \/ \E f \in page.flows : \E o \in SignUpOutcomes : RegisterComplete(f, o)
    \/ LoginSubmit
    \/ \E f \in page.flows : LoginComplete(f)
    \/ \E pw \in Passwords, cpw \in Passwords : Register2Submit(pw, cpw)
    \/ \E f \in page.flows : Register2Complete(f)
    \/ OpenHome
    \/ PageLoad

PageSpec == Init /\ [][PageNext]_vars

\* the leaderboard page
LeaderNext ==
    \/ \E run \in RandomRuns : LeaderboardOpen(run)
    \/ LeaderboardRemount
    \/ PreviousPage
    \/ NextPage
    \/ \E n \in 1..TotalUsers : GoToPage(n)
    \/ \E t \in TimeFrames : SetTimeFrame(t)
    \/ \E k \in SortKeys : SetSortBy(k)
    \/ \E rows \in RowsPerPageOptions : handleRowsPerPageChange(rows)
    \/ PageLoad

LeaderSpec == Init /\ [][LeaderNext]_vars

\* the route guard alone
GuardNext ==
    \/ \E p \in RequestPaths, s \in RequestSearches, c \in Cookies : GuardRequest(p, s, c)
    \/ FollowRedirect

GuardSpec == Init /\ [][GuardNext]_vars

(***************************************************************************)
(* Properties of the route guard (checked under GuardSpec)                 *)
(***************************************************************************)
Handled == request # NoRequest

\* C1: a request for a protected path that carries no session cookie is
\* redirected to /auth/login, and the redirect's callbackUrl parameter, decoded
\* once, is the URL that was requested.
C1_CallbackIsRequestedUrl ==
    (Handled /\ isProtectedPath(request.pathname) /\ ~request.cookie.present)
        => /\ response.kind = "redirect"
           /\ response.pathname = LoginPath
           /\ CallbackParam(response) = Url(request)

\* C2 as stated: on an auth path, whenever a session cookie is present, whatever
\* its value, the guard redirects to /dashboard.
C2_AnyCookieRedirectsToDashboard ==
    (Handled /\ isAuthPath(request.pathname) /\ request.cookie.present)
        => response = DashboardRedirect

\* C2 amended: on an auth path, whenever a session cookie with a non-empty value
\* is present the guard redirects to /dashboard, and every other non-empty value
\* in its place gets the same decision; a cookie with an empty value is treated
\* as no cookie and the request is let through.
C2_NonEmptyCookieRedirectsToDashboard ==
    (Handled /\ isAuthPath(request.pathname) /\ request.cookie.present)
        => /\ request.cookie.value # "" =>
                /\ response = DashboardRedirect
                /\ \A c \in Cookies :
                      (c.present /\ c.value # "")
                          => middleware([request EXCEPT !.cookie = c]) = response
           /\ request.cookie.value = "" => response = NextResponseNext

C2_Witness ==
    /\ request.pathname = RegisterPath
    /\ request.cookie = Cookie("c2")
    /\ response = DashboardRedirect

\* C3: a request whose path is neither protected nor an auth path is let through
\* without a redirect, with or without a session cookie.
C3_UnclassifiedPathPassesThrough ==
    (Handled /\ ~isProtectedPath(request.pathname) /\ ~isAuthPath(request.pathname))
        => response = NextResponseNext

C3_Witness ==
    /\ request.pathname = DashboardPath
    /\ ~request.cookie.present
    /\ response = NextResponseNext

(***************************************************************************)
(* Properties of the auth slice (checked under SliceSpec)                  *)
(***************************************************************************)
\* C4: setCredentials({token: T, user: U}) from any state gives token = T,
\* user = U, isAuthenticated = true, error = null, and durable storage then
\* holds T under the token key.
C4_SetCredentialsPost ==
    [][\A t \in Tokens, u \in Users :
          setCredentials([token |-> t, user |-> u])
              => /\ auth'.token = t
                 /\ auth'.user = u
                 /\ auth'.isAuthenticated = TRUE
                 /\ auth'.error = Null
                 /\ getItem(localStorage', AuthTokenKey) = t]_vars

C4_Witness ==
    /\ history = "credentials"
    /\ auth.token = "T2" /\ auth.user = "U1" /\ auth.isAuthenticated
    /\ auth.error = Null /\ auth.loading
    /\ getItem(localStorage, AuthTokenKey) = "T2"

\* C5: logout from any state gives token = null, user = null,
\* isAuthenticated = false, error = null, and durable storage then has no
\* token key.
C5_LogoutPost ==
    [][logout
          => /\ auth'.token = Null
             /\ auth'.user = Null
             /\ auth'.isAuthenticated = FALSE
             /\ auth'.error = Null
             /\ getItem(localStorage', AuthTokenKey) = Null]_vars

C5_Witness ==
    /\ history = "loggedOut"
    /\ auth.token = Null /\ auth.user = Null /\ ~auth.isAuthenticated
    /\ auth.error = Null
    /\ getItem(localStorage, AuthTokenKey) = Null

\* C10: isAuthenticated is true only if setCredentials was applied and no logout
\* since; a page load takes the stored token into the slice with
\* isAuthenticated = false; setUser, setLoading and setError never change
\* isAuthenticated.
C10_AuthenticatedOnlyByCredentials ==
    /\ [](auth.isAuthenticated => history = "credentials")
    /\ [][PageLoad => /\ auth'.token = getItem(localStorage', AuthTokenKey)
                      /\ ~auth'.isAuthenticated]_vars
    /\ [][((\E u \in Users : setUser(u)) \/ (\E b \in BOOLEAN : setLoading(b))
              \/ (\E m \in ErrorMessages : setError(m)))
             => auth'.isAuthenticated = auth.isAuthenticated]_vars

\* a client hydrated with a stored token, never given credentials, on which
\* setUser, setLoading and setError have acted
C10_Witness ==
    /\ history = "none"
    /\ auth.token # Null /\ auth.token = getItem(localStorage, AuthTokenKey)
    /\ auth.user # Null /\ auth.loading /\ auth.error # Null
    /\ ~auth.isAuthenticated

\* C11: setUser(newProfile) changes only the user field, from any state and in
\* particular after setCredentials: token, isAuthenticated, loading, error and
\* durable storage stay as they were and user becomes newProfile.
C11_SetUserChangesOnlyUser ==
    [][\A u \in Users :
          setUser(u)
              => /\ auth'.user = u
                 /\ auth'.token = auth.token
                 /\ auth'.isAuthenticated = auth.isAuthenticated
                 /\ auth'.loading = auth.loading
                 /\ auth'.error = auth.error
                 /\ localStorage' = localStorage]_vars

\* after a logout only setUser can have put a profile back into the slice
C11_Witness ==
    /\ history = "loggedOut"
    /\ auth.user = "U2"
    /\ auth.token = Null /\ ~auth.isAuthenticated
    /\ auth.error # Null /\ auth.loading
    /\ getItem(localStorage, AuthTokenKey) = Null

(***************************************************************************)
(* Properties of the session (checked under Spec)                          *)
(***************************************************************************)
\* C6: while the token T stored by setCredentials is in durable storage, every
\* request issued through the auth endpoints' HTTP client carries T as its
\* bearer credential: the slice's storage key is the key that client reads.
C6_RequestsCarryStoredToken ==
    [][\A m \in Methods(AuthEndpointsClient) :
          (Call(AuthEndpointsClient, m) /\ history = "credentials"
              /\ getItem(localStorage, AuthTokenKey) # Null)
            => \A r \in inflight' \ inflight :
                  r.authorization = getItem(localStorage, AuthTokenKey)]_vars

\* C7: once a 401 received by any method of either client has been handled,
\* durable storage no longer holds the session token.
C7_401RemovesStoredToken ==
    [][\A r \in inflight : \A o \in Outcomes :
          (Complete(r, o) /\ Is401(o))
            => getItem(localStorage', AuthTokenKey) = Null]_vars

\* C8: a 401 received by any method of either client navigates to the login
\* path, the one the route guard redirects to and classifies as an auth path.
C8_401NavigatesToLoginPath ==
    [][\A r \in inflight : \A o \in Outcomes :
          (Complete(r, o) /\ Is401(o))
            => /\ href' = LoginPath
               /\ isAuthPath(href')]_vars

\* C9: no client method throws or rejects; every failure (network error, HTTP
\* error status, exception while the request is prepared) comes back as a value
\* with success = false and an error object.
NormalizedFailure(result) ==
    /\ result.kind = "returned"
    /\ result.success = FALSE
    /\ result.error.present
    /\ result.error.isObject

C9_FailuresAreNormalized ==
    /\ [][\A r \in inflight : \A o \in Outcomes :
             Complete(r, o)
               => /\ lastResult'.kind = "returned"
                  /\ o.kind # "ok" => NormalizedFailure(lastResult')]_vars
    /\ [][\A c \in Clients : \A m \in Methods(c) :
             CallPrepFails(c, m) => NormalizedFailure(lastResult')]_vars


(***************************************************************************)
(* Properties of the login and registration pages                          *)
(***************************************************************************)
\* a submit handler reaches the end of its success path
RegistrationSucceeds ==
    \/ \E f \in page.flows : \E o \in SignUpOutcomes :
          o.kind = "ok" /\ o.hasData /\ RegisterComplete(f, o)
    \/ \E f \in page.flows : Register2Complete(f)
LoginSucceeds == \E f \in page.flows : LoginComplete(f)

\* the route guard's answer to a navigation to /profile with the browser's cookie
GuardOnProfile(jar) ==
    middleware([pathname |-> ProfilePath, search |-> <<>>, cookie |-> jar])

\* C12: after a successful registration or login the session token is in
\* localStorage and in the auth_token cookie, so the route guard lets a
\* navigation to a protected path through.
C12_SessionInStorageAndCookie ==
    [][(RegistrationSucceeds \/ LoginSucceeds)
          => /\ getItem(localStorage', AuthTokenKey) # Null
             /\ cookieJar'.present /\ Truthy(cookieJar'.value)
             /\ GuardOnProfile(cookieJar').kind = "next"]_vars

\* C13: when a login submission completes successfully, setCredentials has
\* been applied by the time the page navigates away: the slice holds a token,
\* isAuthenticated is true and the token is in localStorage.
C13_LoginCreatesSession ==
    [][LoginSucceeds
          => /\ auth'.token # Null
             /\ auth'.isAuthenticated
             /\ getItem(localStorage', AuthTokenKey) = auth'.token]_vars

\* C16: submitting the registration form with a confirmation that differs from
\* the password only sets the error to the mismatch message: no request is
\* issued, no credentials are set, and loading, token, user, isAuthenticated,
\* localStorage and the location stay as they were.
C16_MismatchRejectedClientSide ==
    [][\A pw \in Passwords, cpw \in Passwords :
          (pw # cpw /\ (RegisterSubmit(pw, cpw) \/ Register2Submit(pw, cpw)))
              => /\ auth' = [auth EXCEPT !.error = MismatchMessage]
                 /\ inflight' = inflight
                 /\ localStorage' = localStorage
                 /\ history' = history
                 /\ lastResult' = lastResult
                 /\ href' = href
                 /\ page' = page]_vars

\* a mismatching submission was made on the registration page of a visitor
\* without a session: only the error is set
C16_Witness ==
    /\ href = RegisterPath
    /\ auth.error = MismatchMessage
    /\ ~auth.loading /\ auth.token = Null /\ auth.user = Null /\ ~auth.isAuthenticated
    /\ inflight = {} /\ page = NoPage
    /\ getItem(localStorage, AuthTokenKey) = Null
    /\ history = "none"

(***************************************************************************)
(* Further properties of the session (checked under Spec)                  *)
(***************************************************************************)
\* C14: a 401 destroys the session as logout does: after the interceptor has
\* run and the forced reload has rebuilt the slice from localStorage, the slice
\* has token = null and isAuthenticated = false and localStorage holds no
\* auth_token.
C14_401DestroysSession ==
    [][\A r \in inflight : \A o \in Outcomes :
          (Complete(r, o) /\ Is401(o))
              => LET reloaded == initialState(localStorage')
                 IN /\ reloaded.token = Null
                    /\ ~reloaded.isAuthenticated
                    /\ getItem(localStorage', AuthTokenKey) = Null]_vars

\* C15: completions of outstanding requests do not interfere with the slice's
\* writes: the answer to a request that was issued before the stored token was
\* set (it carries another Authorization value) leaves that token in
\* localStorage, also when the answer is a 401.
C15_StaleCompletionKeepsToken ==
    [][\A r \in inflight : \A o \in Outcomes :
          (/\ Complete(r, o)
           /\ getItem(localStorage, AuthTokenKey) # Null
           /\ r.authorization # getItem(localStorage, AuthTokenKey))
              => getItem(localStorage', AuthTokenKey)
                     = getItem(localStorage, AuthTokenKey)]_vars

\* the two result shapes of the contract
SuccessShape(result) ==
    /\ result.success
    /\ result.hasData /\ result.status # 0 /\ result.hasHeaders
    /\ ~result.error.present
FailureShape(result) ==
    /\ ~result.success
    /\ result.error.present /\ result.error.isObject /\ Truthy(result.error.message)
    /\ ~result.hasData

\* C17: every value a client method returns is a success result (success =
\* true with data, status and headers, no error) or a failure result (success
\* = false with an error object that has a message, no data).
C17_ResultsHaveOneOfTwoShapes ==
    lastResult.kind = "returned"
        => (SuccessShape(lastResult) \/ FailureShape(lastResult))

\* C18: for a failed request other than a 401 the returned message is the
\* server's message or detail when the body has one, and otherwise a generic
\* non-empty message.
C18_FailureMessagePreserved ==
    /\ [][\A r \in inflight : \A o \in Outcomes :
             (Complete(r, o) /\ o.kind # "ok" /\ ~Is401(o))
                 => LET msg == lastResult'.error.message
                    IN /\ Truthy(msg)
                       /\ (Truthy(o.body.message) \/ Truthy(o.body.detail))
                              => msg \in {o.body.message, o.body.detail}]_vars
    /\ [][\A c \in Clients : \A m \in Methods(c) :
             CallPrepFails(c, m) => Truthy(lastResult'.error.message)]_vars

(***************************************************************************)
(* Further properties of the route guard (checked under GuardSpec)         *)
(***************************************************************************)
\* pathname is prefix itself or continues it with a new segment
WholeSegments(pathname, prefix) ==
    \/ pathname = prefix
    \/ /\ Len(pathname) > Len(prefix)
       /\ \A i \in 1..Len(prefix) : pathname[i] = prefix[i]
       /\ pathname[Len(prefix) + 1] = "/"

\* C19: a path is protected (resp. an auth path) exactly when it is one of the
\* listed prefixes or continues one with '/'; '/profilex' and '/user/profile'
\* are neither, and no path is both.
C19_ClassifiedByWholeSegment ==
    Handled =>
        /\ isProtectedPath(request.pathname)
              <=> \E q \in protectedPaths : WholeSegments(request.pathname, q)
        /\ isAuthPath(request.pathname)
              <=> \E q \in authPaths : WholeSegments(request.pathname, q)
        /\ request.pathname \in {ProfilePath \o <<"x">>, UserProfilePath}
              => ~isProtectedPath(request.pathname) /\ ~isAuthPath(request.pathname)
        /\ ~(isProtectedPath(request.pathname) /\ isAuthPath(request.pathname))
        /\ (response.kind = "redirect" /\ response.pathname = LoginPath)
              => \E q \in protectedPaths : WholeSegments(request.pathname, q)

\* '/profilex' was requested without a cookie and was let through
C19_Witness ==
    /\ request.pathname = ProfilePath \o <<"x">>
    /\ ~request.cookie.present
    /\ ~isProtectedPath(request.pathname)
    /\ response = NextResponseNext

\* C20 as stated: a protected path with a session cookie, whatever its value,
\* and an auth path without a session cookie are let through unchanged.
C20_AnyCookieAdmits ==
    Handled =>
        /\ (isProtectedPath(request.pathname) /\ request.cookie.present)
              => response = NextResponseNext
        /\ (isAuthPath(request.pathname) /\ ~request.cookie.present)
              => response = NextResponseNext

\* C20: a protected path with a session cookie of non-empty value, whatever
\* the value, and an auth path without a session cookie are let through
\* unchanged; a session cookie with an empty value counts as absent, so a
\* protected path carrying it is redirected to the login path.
C20_NonEmptyCookieAdmits ==
    Handled =>
        /\ (isProtectedPath(request.pathname) /\ request.cookie.present
               /\ request.cookie.value # "")
              => response = NextResponseNext
        /\ (isAuthPath(request.pathname) /\ ~request.cookie.present)
              => response = NextResponseNext
        /\ (isProtectedPath(request.pathname) /\ request.cookie = Cookie(""))
              => response.kind = "redirect" /\ response.pathname = LoginPath

\* a protected path was requested with a cookie of arbitrary content and was
\* let through
C20_Witness ==
    /\ request.pathname = SettingsPath
    /\ request.cookie = Cookie("c2")
    /\ response = NextResponseNext

\* C21: with the cookie held fixed, following the guard's redirects ends after
\* at most one redirect in a request the guard lets through: the login page
\* when there is no usable cookie, the dashboard when there is one.
C21_NoRedirectLoop ==
    Handled =>
        /\ hops <= 1
        /\ hops = 1 =>
              /\ response = NextResponseNext
              /\ request.pathname \in {LoginPath, DashboardPath}
              /\ request.pathname = LoginPath => ~Truthy(CookieToken(request))
              /\ request.pathname = DashboardPath => Truthy(CookieToken(request))

\* the redirect of a protected path was followed to the login page, which was
\* let through
C21_Witness ==
    /\ hops = 1
    /\ request.pathname = LoginPath
    /\ CallbackParam(request) # <<>>
    /\ ~request.cookie.present
    /\ response = NextResponseNext

(***************************************************************************)
(* Further properties of the auth slice (checked under SliceSpec)          *)
(***************************************************************************)
\* C22: in every state the reducers can reach, isAuthenticated = true implies
\* that token and user are both non-null.
C22_AuthenticatedHasTokenAndUser ==
    auth.isAuthenticated => (auth.token # Null /\ auth.user # Null)

\* authenticated, and the profile was replaced afterwards
C22_Witness ==
    /\ auth.isAuthenticated
    /\ auth.token = "T2" /\ auth.user = "U1"
    /\ getItem(localStorage, AuthTokenKey) = "T2"

\* C23: after any sequence of slice actions on a client hydrated from
\* localStorage, the slice's token is the value stored under 'auth_token'
\* (null exactly when the key is absent).
C23_StorageMirrorsToken ==
    auth.token = getItem(localStorage, AuthTokenKey)

\* credentials were set and survived a reload: slice and storage agree on T1
C23_Witness ==
    /\ history = "credentials"
    /\ auth.token = "T1" /\ getItem(localStorage, AuthTokenKey) = "T1"
    /\ ~auth.isAuthenticated /\ auth.user = Null

\* C24: setLoading changes only loading and setError changes only error, and
\* neither touches localStorage; setCredentials and logout leave loading as
\* it was.
C24_TransientFlagsFrame ==
    /\ [][\A b \in BOOLEAN :
             setLoading(b) => /\ auth' = [auth EXCEPT !.loading = b]
                              /\ localStorage' = localStorage]_vars
    /\ [][\A m \in ErrorMessages :
             setError(m) => /\ auth' = [auth EXCEPT !.error = m]
                            /\ localStorage' = localStorage]_vars
    /\ [][((\E t \in Tokens, u \in Users : setCredentials([token |-> t, user |-> u]))
              \/ logout)
             => auth'.loading = auth.loading]_vars

\* loading was switched on, credentials were set and kept it on, and an error
\* was set afterwards without ending the session
C24_Witness ==
    /\ history = "credentials"
    /\ auth.loading /\ auth.error = MismatchMessage
    /\ auth.token # Null /\ auth.user # Null /\ auth.isAuthenticated

(***************************************************************************)
(* Further properties of the pages (checked under PageSpec)                *)
(***************************************************************************)
FormNames == {"register", "login", "register2"}

\* C25: the submit control is disabled while a submission runs, so at most one
\* submission of a form is suspended at a time (each of them sets loading
\* back to false when it resumes).
C25_OneSubmissionAtATime ==
    \A name \in FormNames : PendingCount(page, name) <= 1

\* the sign-up call came back without both success and data
SignUpFailed(outcome) == ~(outcome.kind = "ok" /\ outcome.hasData)

\* what every completion of the sign-up call does, whatever the outcome
SignUpBranches(f, o) ==
    IF ~SignUpFailed(o)
    THEN /\ MethodResult(AuthEndpointsClient, o).success
         /\ auth'.token = o.data.token /\ auth'.user = o.data.user
         /\ auth'.isAuthenticated
         /\ getItem(localStorage', AuthTokenKey) = o.data.token
    ELSE /\ auth'.error = RegistrationFailedMessage
         /\ auth'.token = auth.token /\ auth'.user = auth.user
         /\ auth'.isAuthenticated = auth.isAuthenticated
         /\ localStorage' = localStorage
         /\ history' = history

\* C26 as stated: setCredentials is dispatched only for success = true with
\* data; on every failure result the page sets the registration-failed error,
\* leaves token, user, isAuthenticated and localStorage unchanged and stays
\* where it is.
C26_FailureStaysOnPage ==
    [][\A f \in page.flows : \A o \in SignUpOutcomes :
          RegisterComplete(f, o)
              => /\ SignUpBranches(f, o)
                 /\ SignUpFailed(o) => href' = href]_vars

\* C26: setCredentials is dispatched only for success = true with data; on
\* every failure result the page sets the registration-failed error and leaves
\* token, user, isAuthenticated and localStorage unchanged; the page itself
\* does not navigate, but on a 401 the HTTP client's interceptor has already
\* sent the browser to its login location.
C26_FailureSetsErrorOnly ==
    /\ [][\A f \in page.flows : \A o \in SignUpOutcomes :
             RegisterComplete(f, o)
                 => /\ SignUpBranches(f, o)
                    /\ (SignUpFailed(o) /\ ~Is401(o)) => href' = href
                    /\ Is401(o) => href' = Href401Client1]_vars
    /\ [][\A pw \in Passwords :
             RegisterSubmitPrepFails(pw)
                 => /\ auth' = [auth EXCEPT !.error = RegistrationFailedMessage,
                                             !.loading = FALSE]
                    /\ localStorage' = localStorage
                    /\ href' = href]_vars

\* the sign-up call failed with a server error: the error is shown on the
\* registration page and there is no session
C26_Witness ==
    /\ href = RegisterPath
    /\ lastResult.kind = "returned" /\ ~lastResult.success /\ lastResult.error.status = 500
    /\ auth.error = RegistrationFailedMessage
    /\ ~auth.loading /\ auth.token = Null /\ ~auth.isAuthenticated
    /\ getItem(localStorage, AuthTokenKey) = Null
    /\ page = NoPage

\* C29: a visitor who opens the home page ends on the dashboard whatever the
\* slice and the cookie are, and the guard lets the dashboard request through
\* also without a session cookie, so the login page is never shown on the way.
C29_HomeLeadsToDashboard ==
    [][OpenHome
          => /\ href' = DashboardPath
             /\ GuardOn(DashboardPath, cookieJar) = NextResponseNext
             /\ \A c \in Cookies : GuardOn(DashboardPath, c) = NextResponseNext]_vars

\* an unauthenticated visitor without a cookie is on the dashboard
C29_Witness ==
    /\ href = DashboardPath
    /\ ~cookieJar.present
    /\ auth = initialState(localStorage)
    /\ auth.token = Null /\ ~auth.isAuthenticated
    /\ history = "none"
    /\ page = NoPage /\ inflight = {}

(***************************************************************************)
(* Properties of the leaderboard page (checked under LeaderSpec)           *)
(***************************************************************************)
BoardShown == board.users # <<>>

\* C27: whatever controls are used, the current page stays within
\* 1..totalPages and shows at least one row; Previous does nothing on page 1,
\* Next nothing on the last page, and changing the rows per page goes back to
\* page 1.
C27_PageWithinRange ==
    /\ [](BoardShown => /\ board.currentPage \in 1..totalPages(board)
                        /\ Len(currentUsers(board)) >= 1)
    /\ [][PreviousPage => board.currentPage > 1
                          /\ board'.currentPage = board.currentPage - 1]_vars
    /\ [][NextPage => board.currentPage < totalPages(board)
                      /\ board'.currentPage = board.currentPage + 1]_vars
    /\ [][\A rows \in RowsPerPageOptions :
             handleRowsPerPageChange(rows)
                 => board'.currentPage = 1 /\ board'.rowsPerPage = rows]_vars

\* the last of five pages is shown, sorted by events
C27_Witness ==
    /\ BoardShown
    /\ board.rowsPerPage = 20 /\ board.currentPage = 5
    /\ totalPages(board) = 5
    /\ board.sortBy = "events"
    /\ Len(currentUsers(board)) = 20

Metric(u, sortBy) ==
    CASE sortBy = "streak" -> u.streak
      [] sortBy = "checkins" -> u.checkins
      [] sortBy = "events" -> u.events

\* the rows page k would show
PageRows(b, k) ==
    LET first == (k - 1) * b.rowsPerPage
    IN (first + 1)..Min(k * b.rowsPerPage, Len(b.users))

\* C28: the list is in descending order of the selected metric (streak when
\* the page opens), it holds every user once, the rank shown in row i of page
\* k is (k-1)*rowsPerPage + i and is that user's position in the list, the
\* pages split the positions 1..N among them, and a user with a strictly
\* larger metric never has a larger rank.
C28_RankedByMetric ==
    /\ [](BoardShown =>
            LET sorted == filteredUsers(board)
                N == Len(board.users)
                shown == currentUsers(board)
            IN /\ Len(sorted) = N
               /\ \A u \in 1..N : Cardinality({p \in 1..N : sorted[p].id = board.users[u].id}) = 1
               /\ \A p \in 1..(N - 1) :
                     Metric(sorted[p], board.sortBy) >= Metric(sorted[p + 1], board.sortBy)
               /\ \A p, q \in 1..N :
                     Metric(sorted[p], board.sortBy) > Metric(sorted[q], board.sortBy)
                         => p < q
               /\ \A i \in 1..Len(shown) :
                     /\ Rank(board, i - 1) = (board.currentPage - 1) * board.rowsPerPage + i
                     /\ sorted[Rank(board, i - 1)] = shown[i]
               /\ \A p \in 1..N :
                     Cardinality({k \in 1..totalPages(board) : p \in PageRows(board, k)}) = 1
               /\ PageRows(board, board.currentPage)
                     = {Rank(board, i - 1) : i \in 1..Len(shown)})
    /\ [][\A run \in RandomRuns : LeaderboardOpen(run) => board'.sortBy = "streak"]_vars

\* the second page of fifty rows, sorted by check-ins, starts at rank 51
C28_Witness ==
    /\ BoardShown
    /\ board.sortBy = "checkins"
    /\ board.rowsPerPage = 50 /\ board.currentPage = 2
    /\ Rank(board, 0) = 51
    /\ filteredUsers(board)[1].checkins > filteredUsers(board)[100].checkins

====
